---- MODULE Spec2Model ----
(***************************************************************************)
(* Huffman tree construction over an array-backed binary min-heap          *)
(* (src/Untitled-2.c).                                                     *)
(*                                                                         *)
(* Memory is an arena: `nodes` is the sequence of node_t objects malloc    *)
(* has returned so far, a node_t* is an index into it and NULL is 0.       *)
(* The heap object is the record heap_p = [array, size, capacity]; its     *)
(* array is indexed from 0 like the C array.                               *)
(*                                                                         *)
(* The node weight is a C `unsigned` (32 bits).  It is kept exactly, as    *)
(* the pair <<high half, low half>> of 16-bit halves, so that the sum of   *)
(* line 115 wraps where the C sum wraps.                                   *)
(*                                                                         *)
(* The file names the slot array both heap_pp (line 27) and array          *)
(* (everywhere else), returns `minHeap` for heap_p (line 28) and gives     *)
(* heapify a node_t* that it uses as the heap: the model reads these as    *)
(* the one heap object they are used as.  min_heap.h is not part of the    *)
(* sources; size is modelled as the int the code computes with (lines 73,  *)
(* 84, 101).                                                               *)
(***************************************************************************)
EXTENDS Integers, Sequences, FiniteSets, TLC

VARIABLES nodes, heap_p, pc, item, freq, left_p, right_p, top_p, ret, merges, loop_i

vars == <<nodes, heap_p, pc, item, freq, left_p, right_p, top_p, ret, merges, loop_i>>

----------------------------------------------------------------------------
(* Bounds of the model. *)

\* Largest input table (number of symbols) and largest create_heap capacity.
MaxN == 4

\* Largest number of node_t objects the callers of the heap interface allocate.
MaxNodes == 5

\* INT_MAX: the largest value of an `int freq[]` entry.
IntMax == 2147483647

\* Frequencies the inputs are drawn from: small ones, and the largest int.
Freqs == {0, 1, 2, IntMax}

\* Symbols of the input tables.
Symbols == {"a", "b"}

----------------------------------------------------------------------------
(* Values. *)

NULL == 0

\* The content of a node_t* slot malloc returned and nobody has written yet.
Indeterminate == -1

\* The content of a char field malloc returned and nobody has written yet: it
\* is no character the program stored.
IndeterminateChar == "indeterminate"

\* The values a read of an indeterminate or out-of-bounds node_t* can give:
\* the null pointer or the address of any node object.
GarbagePointers(mem) == 0 .. Len(mem)

Half == 2^16

\* int -> unsigned, for the non-negative ints of the input table.
ToUnsigned(f) == <<f \div Half, f % Half>>

\* unsigned + unsigned, modulo 2^32.
AddU(a, b) ==
    LET lo == a[2] + b[2]
        hi == a[1] + b[1] + (lo \div Half)
    IN  <<hi % Half, lo % Half>>

\* unsigned < unsigned.
LtU(a, b) == a[1] < b[1] \/ (a[1] = b[1] /\ a[2] < b[2])

LeU(a, b) == ~LtU(b, a)

\* The element of a one-element set.
Only(S) == CHOOSE x \in S : TRUE

\* C's integer division by 2, which truncates toward zero.
CDiv2(a) == IF a >= 0 THEN a \div 2 ELSE -((-a) \div 2)

----------------------------------------------------------------------------
(* The functions of the file. *)

\* new_node: `temp->item - item;` is an expression, not an assignment, so the
\* item field keeps what malloc returned.
new_node(it, fr) ==
    [item |-> IndeterminateChar, freq |-> fr, left_p |-> NULL, right_p |-> NULL]

\* create_heap: the slot array is allocated and not written.
create_heap(cap) ==
    [size |-> 0, capacity |-> cap, array |-> [i \in 0 .. (cap - 1) |-> Indeterminate]]

swap_node(arr, a, b) == [arr EXCEPT ![a] = arr[b], ![b] = arr[a]]

HeapifyLeft(mem, h, index) ==
    LET left == 2 * index + 1
    IN  IF left < h.size /\ LtU(mem[h.array[left]].freq, mem[h.array[index]].freq)
        THEN left ELSE index

\* Line 46 with <= for <: of two children that weigh the same the right one
\* is taken.
HeapifySmallest_right_ties(mem, h, index) ==
    LET right == 2 * index + 2
        smallest == HeapifyLeft(mem, h, index)
    IN  IF right < h.size /\ LeU(mem[h.array[right]].freq, mem[h.array[smallest]].freq)
        THEN right ELSE smallest

HeapifySmallest(mem, h, index) ==
    LET right == 2 * index + 2
        smallest == HeapifyLeft(mem, h, index)
    IN  IF right < h.size /\ LtU(mem[h.array[right]].freq, mem[h.array[smallest]].freq)
        THEN right ELSE smallest

\* heapify without the recursive call of line 50: one swap at most.
heapify_once(mem, h, index) ==
    LET smallest == HeapifySmallest(mem, h, index)
    IN  IF smallest # index
        THEN [h EXCEPT !.array = swap_node(h.array, smallest, index)]
        ELSE h

\* heapify.  (hv and iv range over one-element sets, which makes TLC compute
\* the heap and the index once instead of at each use.)
RECURSIVE heapify(_, _, _)
heapify(mem, h, index) ==
    Only({ LET smallest == HeapifySmallest(mem, hv, iv)
           IN  IF smallest # iv
               THEN heapify(mem, [hv EXCEPT !.array = swap_node(hv.array, smallest, iv)],
                            smallest)
               ELSE hv :
           hv \in {h}, iv \in {index} })

\* The loop test of a loop that runs until the heap is empty.
check_size_zero(h) == h.size = 0

\* The loop test off by one: the loop ends with two nodes left.
check_size_two(h) == h.size = 2

check_size(h) == h.size = 1

\* pop without the sift-down of line 65.
PopLive_nosift(mem, h) ==
    [heap |-> [h EXCEPT !.array[0] = h.array[h.size - 1], !.size = h.size - 1],
     ret |-> h.array[0], fault |-> FALSE]

\* pop with 1 <= size <= capacity: every slot it touches is a live slot.
PopLive(mem, h) ==
    LET temp == h.array[0]
        moved == [h EXCEPT !.array[0] = h.array[h.size - 1], !.size = h.size - 1]
    IN  [heap |-> heapify(mem, moved, 0), ret |-> temp, fault |-> FALSE]

\* pop with size <= 0.  The code has no check: it reads array[0] (a slot that
\* is not live, or no slot at all when capacity is 0) and array[size - 1]
\* (below the array), stores the latter at array[0], decrements size and
\* returns the former.  The outcomes: the access faults, or the reads give
\* garbage and the run goes on.
PopEmpty(mem, h) ==
    { [heap |-> h, ret |-> NULL, fault |-> TRUE] }
    \cup
    { [heap |-> [size |-> h.size - 1, capacity |-> h.capacity,
                 array |-> [i \in DOMAIN h.array |->
                              IF i = 0 THEN Indeterminate ELSE h.array[i]]],
       ret |-> g, fault |-> FALSE] :
      g \in IF 0 \in DOMAIN h.array /\ h.array[0] # Indeterminate
            THEN {h.array[0]} ELSE GarbagePointers(mem) }

\* pop: the set of its outcomes [heap, ret, fault].
pop(mem, h) == IF h.size >= 1 THEN {PopLive(mem, h)} ELSE PopEmpty(mem, h)

\* The sift-up loop of insert: the slot index where node_p is stored, and the
\* array with the parents moved down, as the pair <<i, array>>.  A write at
\* i = capacity is outside the array and is dropped here (InsertFull).
RECURSIVE SiftUp(_, _, _, _)
SiftUp(mem, arr, i, node_p) ==
    Only({ LET parent == CDiv2(iv - 1)
           IN  IF iv # 0 /\ LtU(mem[node_p].freq, mem[av[parent]].freq)
               THEN SiftUp(mem,
                           IF iv \in DOMAIN av THEN [av EXCEPT ![iv] = av[parent]] ELSE av,
                           parent, node_p)
               ELSE <<iv, av>> :
           av \in {arr}, iv \in {i} })

\* insert without the store of line 79: the slot the sift-up frees keeps
\* the handle it held.
InsertLive_nostore(mem, h, node_p) ==
    LET s == SiftUp(mem, h.array, h.size, node_p)
    IN  [heap |-> [h EXCEPT !.size = h.size + 1, !.array = s[2]], fault |-> FALSE]

\* insert with size < capacity.
InsertLive(mem, h, node_p) ==
    LET s == SiftUp(mem, h.array, h.size, node_p)
    IN  [heap |-> [h EXCEPT !.size = h.size + 1, !.array = [s[2] EXCEPT ![s[1]] = node_p]],
         fault |-> FALSE]

\* insert with size = capacity.  The code has no check: size becomes
\* capacity + 1 and the first write of the loop, or the final write, is at
\* array[capacity], outside the array.  The outcomes: the write faults, or it
\* lands in memory that is not the heap's and the run goes on.
InsertFull(mem, h, node_p) ==
    LET s == SiftUp(mem, h.array, h.size, node_p)
    IN  { [heap |-> [h EXCEPT !.size = h.size + 1,
                              !.array = IF s[1] \in DOMAIN s[2]
                                        THEN [s[2] EXCEPT ![s[1]] = node_p] ELSE s[2]],
           fault |-> FALSE],
          [heap |-> h, fault |-> TRUE] }

\* insert: the set of its outcomes [heap, fault].
insert(mem, h, node_p) ==
    IF h.size < h.capacity THEN {InsertLive(mem, h, node_p)} ELSE InsertFull(mem, h, node_p)

RECURSIVE HeapifyFrom(_, _, _)
HeapifyFrom(mem, h, i) ==
    IF i >= 0 THEN HeapifyFrom(mem, heapify(mem, h, i), i - 1) ELSE h

\* The loop of line 87 started one index too low.
build_min_heap_late(mem, h) ==
    LET n == h.size - 1
    IN  HeapifyFrom(mem, h, CDiv2(n - 1) - 1)

build_min_heap(mem, h) ==
    LET n == h.size - 1
    IN  HeapifyFrom(mem, h, CDiv2(n - 1))

is_leaf(mem, root_p) == mem[root_p].left_p = NULL /\ mem[root_p].right_p = NULL

\* The node objects create_and_build_min_heap allocates, in allocation order.
LeafNodes(its, frs) == [i \in 1 .. Len(frs) |-> new_node(its[i], ToUnsigned(frs[i]))]

\* Lines 97-101: the heap create_and_build_min_heap has before it calls
\* build_min_heap, slot i holding the i-th node allocated after those of mem.
LoadedHeap(mem, sz) ==
    LET created == create_heap(sz)
    IN  [created EXCEPT !.array = [i \in DOMAIN created.array |-> Len(mem) + i + 1],
                        !.size = sz]

\* create_and_build_min_heap, called with memory mem: the memory and the heap
\* it returns.
create_and_build_min_heap(mem, its, frs) ==
    LET mem2 == mem \o LeafNodes(its, frs)
    IN  [nodes |-> mem2, heap |-> build_min_heap(mem2, LoadedHeap(mem, Len(frs)))]

----------------------------------------------------------------------------
(* The heap interface under callers that keep its contract.                *)

NoHeap == [size |-> 0, capacity |-> 0, array |-> << >>]

Tables(len) == [1 .. len -> Symbols] \X [1 .. len -> Freqs]

Init ==
    /\ nodes = << >>
    /\ heap_p = NoHeap
    /\ pc = "init"
    /\ item = << >>
    /\ freq = << >>
    /\ left_p = NULL
    /\ right_p = NULL
    /\ top_p = NULL
    /\ ret = NULL
    /\ merges = 0
    /\ loop_i = 0

\* A caller creates an empty heap that can hold at least one node.
CreateHeap ==
    /\ pc = "init"
    /\ \E cap \in 1 .. MaxN : heap_p' = create_heap(cap)
    /\ pc' = "created"
    /\ UNCHANGED <<loop_i, nodes, item, freq, left_p, right_p, top_p, ret, merges>>

\* A caller bulk-loads a table.  Here freq records the frequencies of the
\* call; the characters are not recorded, as new_node drops them.
CreateAndBuild ==
    /\ pc = "init"
    /\ \E len \in 1 .. MaxN : \E t \in Tables(len) :
         LET r == create_and_build_min_heap(nodes, t[1], t[2])
         IN  /\ freq' = t[2]
             /\ nodes' = r.nodes
             /\ heap_p' = r.heap
    /\ pc' = "built"
    /\ UNCHANGED <<loop_i, item, left_p, right_p, top_p, ret, merges>>

Ready == pc \in {"created", "built", "inserted", "popped"}

\* A caller allocates a node and inserts it.
CallInsert ==
    /\ Ready
    /\ Len(nodes) < MaxNodes
    /\ \E it \in Symbols, fr \in Freqs :
         LET mem == Append(nodes, new_node(it, ToUnsigned(fr)))
         IN  \E o \in insert(mem, heap_p, Len(mem)) :
               /\ nodes' = mem
               /\ heap_p' = o.heap
               /\ pc' = IF o.fault THEN "crashed" ELSE "inserted"
    /\ ret' = NULL
    /\ UNCHANGED <<loop_i, item, freq, left_p, right_p, top_p, merges>>

CallPop ==
    /\ Ready
    /\ \E o \in pop(nodes, heap_p) :
         /\ heap_p' = o.heap
         /\ ret' = o.ret
         /\ pc' = IF o.fault THEN "crashed" ELSE "popped"
    /\ UNCHANGED <<loop_i, nodes, item, freq, left_p, right_p, top_p, merges>>

InContract == 0 <= heap_p.size /\ heap_p.size <= heap_p.capacity

Insert == heap_p.size < heap_p.capacity /\ CallInsert

Pop == heap_p.size >= 1 /\ CallPop

Next == CreateHeap \/ CreateAndBuild \/ Insert \/ Pop

Spec == Init /\ [][Next]_vars

----------------------------------------------------------------------------
(* The heap interface under any caller: a call is made on a heap whose     *)
(* size is within its capacity, and may itself be out of contract (pop on  *)
(* an empty heap, insert on a full one).  What such a call leaves behind   *)
(* is not followed further.                                                *)

AnyInsert == InContract /\ CallInsert

AnyPop == InContract /\ CallPop

AnyNext == CreateHeap \/ CreateAndBuild \/ AnyInsert \/ AnyPop

AnySpec == Init /\ [][AnyNext]_vars

----------------------------------------------------------------------------
(* build_huffman_tree(item, freq, size), one step per call it makes.       *)

\* Before the call.
BuildInit ==
    /\ item = << >>
    /\ freq = << >>
    /\ nodes = << >>
    /\ heap_p = NoHeap
    /\ pc = "entry"
    /\ left_p = NULL
    /\ right_p = NULL
    /\ top_p = NULL
    /\ ret = NULL
    /\ merges = 0
    /\ loop_i = 0

\* Line 107: the call, with a table of 0 .. MaxN symbols.
BuildCall ==
    /\ pc = "entry"
    /\ \E len \in 0 .. MaxN : \E t \in Tables(len) : item' = t[1] /\ freq' = t[2]
    /\ pc' = "start"
    /\ UNCHANGED <<loop_i, nodes, heap_p, left_p, right_p, top_p, ret, merges>>

\* Line 109.
BuildCreate ==
    /\ pc = "start"
    /\ LET r == create_and_build_min_heap(nodes, item, freq)
       IN  nodes' = r.nodes /\ heap_p' = r.heap
    /\ pc' = "loop"
    /\ UNCHANGED <<loop_i, item, freq, left_p, right_p, top_p, ret, merges>>

\* Lines 111-112: the loop test fails to end the loop, and the first pop.
PopLeft ==
    /\ pc = "loop"
    /\ ~check_size(heap_p)
    /\ \E o \in pop(nodes, heap_p) :
         /\ heap_p' = o.heap
         /\ left_p' = o.ret
         /\ pc' = IF o.fault THEN "crashed" ELSE "popped_left"
    /\ UNCHANGED <<loop_i, nodes, item, freq, right_p, top_p, ret, merges>>

\* Line 113.
PopRight ==
    /\ pc = "popped_left"
    /\ \E o \in pop(nodes, heap_p) :
         /\ heap_p' = o.heap
         /\ right_p' = o.ret
         /\ pc' = IF o.fault THEN "crashed" ELSE "popped_right"
    /\ UNCHANGED <<loop_i, nodes, item, freq, left_p, top_p, ret, merges>>

\* The node of lines 115-118 with the two children exchanged.
MergedNode_swapped(mem, l, r) ==
    [new_node("$", AddU(mem[l].freq, mem[r].freq)) EXCEPT !.left_p = r, !.right_p = l]

\* The node of lines 115-118.
MergedNode(mem, l, r) ==
    [new_node("$", AddU(mem[l].freq, mem[r].freq)) EXCEPT !.left_p = l, !.right_p = r]

\* Lines 115-120, with two nodes in hand.
Merge ==
    /\ pc = "popped_right"
    /\ left_p # NULL /\ right_p # NULL
    /\ LET mem == Append(nodes, MergedNode(nodes, left_p, right_p))
       IN  \E o \in insert(mem, heap_p, Len(mem)) :
             /\ nodes' = mem
             /\ top_p' = Len(mem)
             /\ heap_p' = o.heap
             /\ pc' = IF o.fault THEN "crashed" ELSE "loop"
    /\ merges' = merges + 1
    /\ UNCHANGED <<loop_i, item, freq, left_p, right_p, ret>>

\* Line 115 with a null left_p or right_p: the read of its freq faults.
MergeNull ==
    /\ pc = "popped_right"
    /\ left_p = NULL \/ right_p = NULL
    /\ pc' = "crashed"
    /\ UNCHANGED <<loop_i, nodes, heap_p, item, freq, left_p, right_p, top_p, ret, merges>>

\* Lines 111 and 122: the loop test ends the loop, and the last pop is returned.
Return ==
    /\ pc = "loop"
    /\ check_size(heap_p)
    /\ \E o \in pop(nodes, heap_p) :
         /\ heap_p' = o.heap
         /\ ret' = o.ret
         /\ pc' = IF o.fault THEN "crashed" ELSE "done"
    /\ UNCHANGED <<loop_i, nodes, item, freq, left_p, right_p, top_p, merges>>

BuildNext == BuildCall \/ BuildCreate \/ PopLeft \/ PopRight \/ Merge \/ MergeNull \/ Return

BuildSpec == BuildInit /\ [][BuildNext]_vars

\* The function is one sequential call: a step that can be taken is taken.
FairBuildSpec == BuildSpec /\ WF_vars(BuildNext)

----------------------------------------------------------------------------
(* The tree below a node. *)

\* The leaves below p, left to right.
RECURSIVE TreeLeaves(_, _)
TreeLeaves(mem, p) ==
    IF p = NULL THEN << >>
    ELSE IF is_leaf(mem, p) THEN <<p>>
    ELSE TreeLeaves(mem, mem[p].left_p) \o TreeLeaves(mem, mem[p].right_p)

\* The nodes below p (p included) that have a child, left to right.
RECURSIVE TreeInternals(_, _)
TreeInternals(mem, p) ==
    IF p = NULL \/ is_leaf(mem, p) THEN << >>
    ELSE <<p>> \o TreeInternals(mem, mem[p].left_p) \o TreeInternals(mem, mem[p].right_p)

\* How many of the live slots of h hold p.
Count(h, p) == Cardinality({i \in 0 .. (h.size - 1) : h.array[i] = p})

\* Exact natural numbers, as three 16-bit digits.
Wide(u) == <<0, u[1], u[2]>>

AddWide(a, b) ==
    LET lo == a[3] + b[3]
        hi == a[2] + b[2] + (lo \div Half)
        top == a[1] + b[1] + (hi \div Half)
    IN  <<top, hi % Half, lo % Half>>

RECURSIVE SumWide(_)
SumWide(us) == IF us = << >> THEN <<0, 0, 0>> ELSE AddWide(Wide(Head(us)), SumWide(Tail(us)))

InputSum == SumWide([i \in 1 .. Len(freq) |-> ToUnsigned(freq[i])])

LeafSum(mem, p) ==
    LET ls == TreeLeaves(mem, p) IN SumWide([i \in 1 .. Len(ls) |-> mem[ls[i]].freq])

\* Two sequences with the same elements, each as many times.
SameBag(s, t) ==
    /\ Len(s) = Len(t)
    /\ \A x \in {s[i] : i \in DOMAIN s} \cup {t[i] : i \in DOMAIN t} :
         Cardinality({i \in DOMAIN s : s[i] = x}) = Cardinality({i \in DOMAIN t : t[i] = x})

----------------------------------------------------------------------------
(* The claims. *)

HeapProperty(mem, h) ==
    \A i \in 0 .. (h.size - 1) : \A c \in {2 * i + 1, 2 * i + 2} :
      c < h.size => LeU(mem[h.array[i]].freq, mem[h.array[c]].freq)

\* C1: after build_min_heap on an array of arbitrary weights, and after every
\* later insert (called with size < capacity) and pop (called with size >= 1),
\* no live slot holds a weight greater than the weight of either of its
\* children 2i+1, 2i+2 among the live slots.
C1_HeapProperty == pc \in {"built", "inserted", "popped"} => HeapProperty(nodes, heap_p)

\* C1 witness: a bulk-loaded heap of four nodes, after a pop and an insert,
\* whose root weighs strictly less than both its children and whose last node
\* weighs strictly more than its parent.
C1_Witness ==
    /\ pc = "inserted" /\ Len(freq) = 4
    /\ heap_p.size = 4 /\ Len(nodes) = 5
    /\ LtU(nodes[heap_p.array[1]].freq, nodes[heap_p.array[3]].freq)
    /\ LtU(nodes[heap_p.array[0]].freq, nodes[heap_p.array[1]].freq)
    /\ LtU(nodes[heap_p.array[0]].freq, nodes[heap_p.array[2]].freq)

\* C2: a pop called with size >= 1 returns a node that weighs no more than any
\* node in the live slots at the call, the live slots afterwards hold what they
\* held minus that node once, and a pop that follows a pop returns a weight
\* that is not less.
C2_ExtractMin ==
    [][pc' = "popped" =>
         /\ ret' \in 1 .. Len(nodes)
         /\ \A i \in 0 .. (heap_p.size - 1) :
              LeU(nodes[ret'].freq, nodes[heap_p.array[i]].freq)
         /\ heap_p'.size = heap_p.size - 1
         /\ \A p \in 1 .. Len(nodes) :
              Count(heap_p', p) = Count(heap_p, p) - (IF p = ret' THEN 1 ELSE 0)
         /\ (pc = "popped" => LeU(nodes[ret].freq, nodes[ret'].freq))]_vars

\* C2 witness: three nodes were bulk-loaded and popped one after the other,
\* and they do not all weigh the same.
C2_Witness ==
    /\ pc = "popped" /\ Len(freq) = 3 /\ Len(nodes) = 3 /\ heap_p.size = 0
    /\ \E p \in 1 .. 3 : LtU(nodes[p].freq, nodes[ret].freq)

\* C3: on a table of n >= 1 symbols build_huffman_tree does not fault, runs
\* the body of its loop n - 1 times and returns a tree of n leaves and n - 1
\* nodes with children.
C3_MergeCount ==
    Len(freq) >= 1 =>
      /\ pc # "crashed"
      /\ merges <= Len(freq) - 1
      /\ pc = "done" =>
            /\ merges = Len(freq) - 1
            /\ Len(TreeLeaves(nodes, ret)) = Len(freq)
            /\ Len(TreeInternals(nodes, ret)) = Len(freq) - 1

\* C3 witness: the tree of a table of four symbols has been returned.
C3_Witness == pc = "done" /\ Len(freq) = 4 /\ merges = 3 /\ ~is_leaf(nodes, ret)

\* C4: the weight of the returned root is the sum of the weights of the
\* leaves of the returned tree, and that is the sum of the input frequencies.
C4_RootWeightIsSum ==
    pc = "done" =>
      /\ Wide(nodes[ret].freq) = LeafSum(nodes, ret)
      /\ LeafSum(nodes, ret) = InputSum

\* The (symbol, weight) pairs of the leaves of the tree below p.
LeafPairs(mem, p) ==
    LET ls == TreeLeaves(mem, p)
    IN  [i \in 1 .. Len(ls) |-> <<mem[ls[i]].item, mem[ls[i]].freq>>]

InputPairs == [i \in 1 .. Len(freq) |-> <<item[i], ToUnsigned(freq[i])>>]

\* C5: the leaves of the returned tree carry the (character, frequency) pairs
\* of the input, each as many times as the input has it, and the nodes with
\* children carry the placeholder symbol.
C5_LeavesCarryInput ==
    pc = "done" =>
      /\ SameBag(LeafPairs(nodes, ret), InputPairs)
      /\ \A i \in DOMAIN TreeInternals(nodes, ret) :
           nodes[TreeInternals(nodes, ret)[i]].item = "$"

\* C6: on an empty table build_huffman_tree ends with the error EmptyInput
\* and makes no pop, no insert and no merge.
C6_EmptyInputFails ==
    freq = << >> =>
      /\ pc \in {"entry", "start", "loop", "EmptyInput"}
      /\ heap_p.size = 0
      /\ merges = 0

\* C7: build_huffman_tree reaches its return on every input table.
C7_Terminates == <>(pc = "done")

\* C8: a pop called with size = 0 ends with the error HeapEmpty: it returns no
\* node, and leaves the slots and size as they were.
C8_PopEmptyFails ==
    [][(CallPop /\ heap_p.size = 0) =>
         (pc' = "HeapEmpty" /\ ret' = NULL /\ heap_p' = heap_p)]_vars

\* C9: an insert called with size = capacity ends with the error HeapFull: it
\* leaves the slots and size as they were.
C9_InsertFullFails ==
    [][(CallInsert /\ heap_p.size = heap_p.capacity) =>
         (pc' = "HeapFull" /\ heap_p' = heap_p)]_vars

\* C10: 0 <= size <= capacity after any sequence of create_heap, bulk-load,
\* insert and pop calls, a pop on an empty heap and an insert on a full heap
\* included.
C10_SizeBound == 0 <= heap_p.size /\ heap_p.size <= heap_p.capacity

\* C11: on a table of one symbol (c, w) build_huffman_tree runs the body of
\* its loop zero times, creates no '$' node, does not fault, and returns one
\* node without children whose weight is w and whose symbol is c.
C11_SingleSymbol ==
    Len(freq) = 1 =>
      /\ pc # "crashed"
      /\ merges = 0
      /\ Len(nodes) <= 1
      /\ pc = "done" =>
            /\ is_leaf(nodes, ret)
            /\ nodes[ret].freq = ToUnsigned(freq[1])
            /\ nodes[ret].item = item[1]

----------------------------------------------------------------------------
(* build_huffman_tree on named tables that are longer than MaxN.           *)

\* The textbook table: a:5 b:9 c:12 d:13 e:16 f:45.
TextbookItem == <<"a", "b", "c", "d", "e", "f">>

TextbookFreq == <<5, 9, 12, 13, 16, 45>>

\* The orders in which a table of n rows can be passed.
Orders(n) == {p \in [1 .. n -> 1 .. n] : \A i, j \in 1 .. n : p[i] = p[j] => i = j}

Reorder(s, p) == [i \in 1 .. Len(s) |-> s[p[i]]]

\* Seven symbols that each occur INT_MAX times.
HeavyItem == <<"a", "b", "c", "d", "e", "f", "g">>

HeavyFreq == [i \in 1 .. Len(HeavyItem) |-> IntMax]

ExampleTables ==
    {<<Reorder(TextbookItem, p), Reorder(TextbookFreq, p)>> : p \in Orders(Len(TextbookFreq))}
      \cup {<<HeavyItem, HeavyFreq>>}

\* Line 107: the call, with one of the named tables.
ExampleCall ==
    /\ pc = "entry"
    /\ \E t \in ExampleTables : item' = t[1] /\ freq' = t[2]
    /\ pc' = "start"
    /\ UNCHANGED <<loop_i, nodes, heap_p, left_p, right_p, top_p, ret, merges>>

ExampleNext == ExampleCall \/ BuildCreate \/ PopLeft \/ PopRight \/ Merge \/ Return

ExampleSpec == BuildInit /\ [][ExampleNext]_vars

\* k times the weight u, exactly.
RECURSIVE TimesWide(_, _)
TimesWide(u, k) == IF k = 0 THEN <<0, 0, 0>> ELSE AddWide(Wide(u), TimesWide(u, k - 1))

\* The sum over the leaves below p of weight times depth, p being at depth d.
RECURSIVE PathLength(_, _, _)
PathLength(mem, p, d) ==
    IF is_leaf(mem, p) THEN TimesWide(mem[p].freq, d)
    ELSE AddWide(PathLength(mem, mem[p].left_p, d + 1),
                 PathLength(mem, mem[p].right_p, d + 1))

\* C12: on the table a:5 b:9 c:12 d:13 e:16 f:45, passed in that order or in
\* any other, the returned root weighs 100 and the sum over the leaves of
\* weight times depth is 224.
C12_TextbookExample ==
    (pc = "done" /\ SameBag(freq, TextbookFreq)) =>
      /\ nodes[ret].freq = ToUnsigned(100)
      /\ PathLength(nodes, ret, 0) = Wide(ToUnsigned(224))

\* C12 witness: the tree of the table in the order a, b, c, d, e, f has been
\* returned after five merges; f hangs from the root and a is four edges down.
C12_Witness ==
    /\ pc = "done" /\ freq = TextbookFreq /\ merges = 5
    /\ \E c \in {nodes[ret].left_p, nodes[ret].right_p} :
         is_leaf(nodes, c) /\ nodes[c].freq = ToUnsigned(45)
    /\ Len(TreeLeaves(nodes, ret)) = 6

\* C13: in every merge of build_huffman_tree the node popped first becomes
\* the left child of the new node and the node popped second its right child:
\* the first pop takes a lightest node of the heap, the second pop keeps it in
\* hand and takes another node of the heap, and the merge links them in that
\* order; so in every node with children the left child weighs no more than
\* the right child.
C13_LeftExtractedFirst ==
    [][Len(freq') >= 1 =>
         /\ pc' = "popped_left" =>
              /\ Count(heap_p, left_p') = 1 /\ Count(heap_p', left_p') = 0
              /\ \A i \in 0 .. (heap_p.size - 1) :
                   LeU(nodes[left_p'].freq, nodes[heap_p.array[i]].freq)
         /\ pc' = "popped_right" =>
              /\ left_p' = left_p
              /\ Count(heap_p, right_p') = 1 /\ right_p' # left_p
         /\ (pc = "popped_right" /\ pc' = "loop") =>
              /\ top_p' = Len(nodes) + 1
              /\ nodes'[top_p'].left_p = left_p
              /\ nodes'[top_p'].right_p = right_p
         /\ \A p \in 1 .. Len(nodes') :
              ~is_leaf(nodes', p) =>
                LeU(nodes'[nodes'[p].left_p].freq, nodes'[nodes'[p].right_p].freq)]_vars

\* C13 witness: a tree of three merges has been returned, the last merge
\* linked a left child strictly lighter than the right child, and the two are
\* the nodes still held in left_p and right_p.
C13_Witness ==
    /\ pc = "done" /\ merges = 3
    /\ nodes[ret].left_p = left_p /\ nodes[ret].right_p = right_p
    /\ LtU(nodes[left_p].freq, nodes[right_p].freq)

\* C14: every node, once the heap is loaded and in the returned tree, has no
\* child or two children, and a node with two children weighs the sum of the
\* weights of its left and right children.
C14_StrictBinarySums ==
    \A p \in 1 .. Len(nodes) :
      /\ (nodes[p].left_p = NULL) = (nodes[p].right_p = NULL)
      /\ ~is_leaf(nodes, p) =>
           Wide(nodes[p].freq) =
             AddWide(Wide(nodes[nodes[p].left_p].freq), Wide(nodes[nodes[p].right_p].freq))

\* The outcomes the step of build_huffman_tree that is due can have.
StepOutcomes ==
    IF pc \in {"loop", "popped_left"} THEN pop(nodes, heap_p)
    ELSE IF pc = "popped_right" /\ left_p # NULL /\ right_p # NULL
    THEN insert(Append(nodes, MergedNode(nodes, left_p, right_p)), heap_p, Len(nodes) + 1)
    ELSE {}

\* C15: two runs of build_huffman_tree on the same table of n >= 1 symbols go
\* through the same heap states and return trees alike in shape, weights and
\* symbols: from the call on, the step that is due has one outcome, and no
\* field of a node holds a value that the table does not determine.
C15_Deterministic ==
    (pc # "entry" /\ Len(freq) >= 1) =>
      /\ Cardinality(StepOutcomes) <= 1
      /\ \A p \in 1 .. Len(nodes) :
           /\ nodes[p].item # IndeterminateChar
           /\ nodes[p].left_p # Indeterminate /\ nodes[p].right_p # Indeterminate

\* The handles of the live slots of h, slot 0 first.
LiveHandles(h) == [i \in 1 .. h.size |-> h.array[i - 1]]

\* The handles build_huffman_tree holds of nodes that are in no slot and
\* under no node: the popped nodes before their merge, and the returned root.
HeldHandles ==
    IF pc = "popped_left" THEN <<left_p>>
    ELSE IF pc = "popped_right" THEN <<left_p, right_p>>
    ELSE IF pc = "done" THEN <<ret>>
    ELSE << >>

\* The child pointers of the nodes of mem that are not null.
RECURSIVE ChildEdges(_)
ChildEdges(mem) ==
    IF mem = << >> THEN << >>
    ELSE SelectSeq(<<Head(mem).left_p, Head(mem).right_p>>, LAMBDA c : c # NULL)
           \o ChildEdges(Tail(mem))

\* The nodes reached from p by one to k child pointers.
RECURSIVE Below(_, _, _)
Below(mem, p, k) ==
    IF k = 0 THEN {}
    ELSE LET cs == {mem[p].left_p, mem[p].right_p} \ {NULL}
         IN  cs \cup UNION {Below(mem, c, k - 1) : c \in cs}

\* C16: in a run of build_huffman_tree on n >= 1 symbols, after the bulk load,
\* after each pop and after each insert, the handles in the live slots, the
\* handles of popped nodes not yet merged (and of the returned root) and the
\* child pointers of all nodes refer to nodes and no two of them refer to the
\* same node; no node is reached from itself by child pointers.
C16_NoSharing ==
    (Len(freq) >= 1 /\ pc \notin {"entry", "start"}) =>
      LET refs == LiveHandles(heap_p) \o HeldHandles \o ChildEdges(nodes)
      IN  /\ \A i \in DOMAIN refs : refs[i] \in 1 .. Len(nodes)
          /\ \A i, j \in DOMAIN refs : refs[i] = refs[j] => i = j
          /\ \A p \in 1 .. Len(nodes) : p \notin Below(nodes, p, Len(nodes))

\* C16 witness: on a table of four symbols two merges are done and two nodes
\* are popped for the third: the slots are empty, two handles are held and the
\* two merged nodes have four child pointers between them.
C16_Witness ==
    /\ pc = "popped_right" /\ Len(freq) = 4 /\ merges = 2
    /\ heap_p.size = 0 /\ Len(ChildEdges(nodes)) = 4
    /\ left_p # right_p

----------------------------------------------------------------------------
(* create_and_build_min_heap, one step per call of heapify.                *)

\* Lines 95-101 and 84-87: the nodes are allocated, the slots loaded and
\* build_min_heap entered, its loop about to start at (n - 1) / 2.
Load ==
    /\ pc = "init"
    /\ \E len \in 1 .. MaxN : \E t \in Tables(len) :
         /\ freq' = t[2]
         /\ nodes' = LeafNodes(t[1], t[2])
         /\ heap_p' = LoadedHeap(<< >>, len)
         /\ loop_i' = CDiv2((len - 1) - 1)
    /\ pc' = "build_min_heap"
    /\ UNCHANGED <<item, left_p, right_p, top_p, ret, merges>>

\* Lines 87-88: one turn of the loop.
HeapifyStep ==
    /\ pc = "build_min_heap"
    /\ loop_i >= 0
    /\ heap_p' = heapify(nodes, heap_p, loop_i)
    /\ loop_i' = loop_i - 1
    /\ UNCHANGED <<nodes, pc, item, freq, left_p, right_p, top_p, ret, merges>>

\* Lines 87 and 103: the loop ends and the heap is returned.
LoopEnd ==
    /\ pc = "build_min_heap"
    /\ loop_i < 0
    /\ pc' = "built"
    /\ UNCHANGED <<nodes, heap_p, item, freq, left_p, right_p, top_p, ret, merges, loop_i>>

HeapifyNext == Load \/ HeapifyStep \/ LoopEnd

HeapifySpec == Init /\ [][HeapifyNext]_vars

\* The weight in slot k of h.
SlotFreq(mem, h, k) == mem[h.array[k]].freq

\* Both children of slot i are live, weigh the same, and less than slot i.
TiedChildren(mem, h, i) ==
    /\ 2 * i + 2 < h.size
    /\ SlotFreq(mem, h, 2 * i + 1) = SlotFreq(mem, h, 2 * i + 2)
    /\ LtU(SlotFreq(mem, h, 2 * i + 1), SlotFreq(mem, h, i))

\* No live child of slot i weighs less than slot i.
NoLighterChild(mem, h, i) ==
    \A c \in {2 * i + 1, 2 * i + 2} :
      c < h.size => ~LtU(SlotFreq(mem, h, c), SlotFreq(mem, h, i))

\* C17: when the two children of slot i are live, weigh the same and less
\* than slot i, heapify picks the left child 2i+1 and its swap puts the left
\* child's node in slot i and leaves slot 2i+2 alone; when no live child
\* weighs less than slot i, heapify picks i and changes nothing.
C17_TieBreakLeft ==
    [][/\ \A i \in 0 .. (heap_p.size - 1) :
            /\ TiedChildren(nodes, heap_p, i) => HeapifySmallest(nodes, heap_p, i) = 2 * i + 1
            /\ NoLighterChild(nodes, heap_p, i) => HeapifySmallest(nodes, heap_p, i) = i
       /\ (pc = "build_min_heap" /\ loop_i >= 0 /\ TiedChildren(nodes, heap_p, loop_i)) =>
            /\ heap_p'.array[loop_i] = heap_p.array[2 * loop_i + 1]
            /\ heap_p'.array[2 * loop_i + 2] = heap_p.array[2 * loop_i + 2]
       /\ (pc = "build_min_heap" /\ loop_i >= 0 /\ NoLighterChild(nodes, heap_p, loop_i)) =>
            heap_p' = heap_p]_vars

\* C17 witness: the table of weights 2, 1, 1 was loaded and heapify(0) has
\* run: slot 0 holds the second node, slot 1 the first, slot 2 still the third.
C17_Witness ==
    /\ pc = "built" /\ freq = <<2, 1, 1>>
    /\ heap_p.array[0] = 2 /\ heap_p.array[1] = 1 /\ heap_p.array[2] = 3

----------------------------------------------------------------------------
(* The slot indices the heap functions read or write.                      *)

\* heapify(h, index): lines 42 and 46 read a child's slot only when the child
\* is below size, and then the slot of smallest; line 49 swaps two slots read.
RECURSIVE HeapifyAccess(_, _, _)
HeapifyAccess(mem, h, index) ==
    LET kids == {c \in {2 * index + 1, 2 * index + 2} : c < h.size}
        smallest == HeapifySmallest(mem, h, index)
    IN  IF kids = {} THEN {}
        ELSE kids \cup {index} \cup
             (IF smallest # index
              THEN HeapifyAccess(mem, [h EXCEPT !.array = swap_node(h.array, smallest, index)],
                                 smallest)
              ELSE {})

\* The loop of build_min_heap from i down to 0.
RECURSIVE HeapifyFromAccess(_, _, _)
HeapifyFromAccess(mem, h, i) ==
    IF i >= 0
    THEN HeapifyAccess(mem, h, i) \cup HeapifyFromAccess(mem, heapify(mem, h, i), i - 1)
    ELSE {}

\* create_and_build_min_heap on sz nodes: the stores of lines 98-99 and the
\* heapify calls of build_min_heap.
BuildAccess(mem, h) ==
    (0 .. (h.size - 1)) \cup HeapifyFromAccess(mem, h, CDiv2((h.size - 1) - 1))

\* pop(h): lines 62-63 read slots 0 and size - 1 and write slot 0, line 65
\* sifts down from 0 in the heap that is one shorter.
PopAccess(mem, h) ==
    {0, h.size - 1} \cup
    (IF h.size >= 1
     THEN HeapifyAccess(mem, [h EXCEPT !.array[0] = h.array[h.size - 1],
                                       !.size = h.size - 1], 0)
     ELSE {})

\* The loop of insert from slot i: line 75 reads the parent's slot, line 76
\* writes slot i, line 79 writes the slot the loop ends at.
RECURSIVE SiftUpAccess(_, _, _, _)
SiftUpAccess(mem, arr, i, node_p) ==
    LET parent == CDiv2(i - 1)
    IN  IF i = 0 THEN {i}
        ELSE {i, parent} \cup
             (IF LtU(mem[node_p].freq, mem[arr[parent]].freq)
              THEN SiftUpAccess(mem, arr, parent, node_p) ELSE {})

\* insert(h, node_p): the loop starts at the old size.
InsertAccess(mem, h, node_p) == SiftUpAccess(mem, h.array, h.size, node_p)

Slots(h) == 0 .. (h.capacity - 1)

\* C18: in a run of build_huffman_tree on n >= 1 symbols every heap call
\* keeps its contract and stays inside the slot array: the bulk load, every
\* pop and every insert read and write slots in [0, capacity) only, every pop
\* is called with size >= 1 and every insert with size < capacity.
C18_InBounds ==
    [][Len(freq') >= 1 =>
         /\ pc = "start" =>
              BuildAccess(nodes', LoadedHeap(nodes, Len(freq))) \subseteq Slots(heap_p')
         /\ pc \in {"loop", "popped_left"} =>
              /\ heap_p.size >= 1
              /\ PopAccess(nodes, heap_p) \subseteq Slots(heap_p)
         /\ pc = "popped_right" =>
              /\ heap_p.size < heap_p.capacity
              /\ InsertAccess(nodes', heap_p, top_p') \subseteq Slots(heap_p)]_vars

\* C18 witness: on a table of four symbols the first merged node has been
\* inserted into the two nodes left and has moved up to slot 0, the heap
\* holding three nodes in its four slots.
C18_Witness ==
    /\ pc = "loop" /\ Len(freq) = 4 /\ merges = 1
    /\ heap_p.size = 3 /\ heap_p.capacity = 4
    /\ heap_p.array[0] = top_p /\ top_p = 5

\* C19: the nodes build_huffman_tree creates by its merges, in the order it
\* creates them, weigh no less each than the one before; the returned root is
\* the last and weighs most.
C19_MergeWeightsAscend ==
    /\ \A p, q \in (Len(freq) + 1) .. Len(nodes) :
         p < q => LeU(nodes[p].freq, nodes[q].freq)
    /\ (pc = "done" /\ Len(freq) >= 2) =>
         /\ ret = Len(nodes)
         /\ \A p \in (Len(freq) + 1) .. Len(nodes) : LeU(nodes[p].freq, nodes[ret].freq)

\* a <= b for exact numbers.
LeWide(a, b) ==
    \/ a[1] < b[1]
    \/ a[1] = b[1] /\ a[2] < b[2]
    \/ a[1] = b[1] /\ a[2] = b[2] /\ a[3] <= b[3]

MinWide(S) == CHOOSE x \in S : \A y \in S : LeWide(x, y)

\* The sequence ws without its elements i and j, followed by m.
Merged(ws, i, j, m) ==
    SelectSeq([k \in 1 .. Len(ws) |-> <<k, ws[k]>>], LAMBDA e : e[1] # i /\ e[1] # j)
      \o <<<<0, m>>>>

\* The least weighted path length of a tree in which every node has no child
\* or two and whose leaves weigh ws: a tree joins two of its subtrees at each
\* node with children, and its weighted path length is the sum, over those
\* nodes, of the weight of the leaves below.
RECURSIVE MinPathLength(_)
MinPathLength(ws) ==
    IF Len(ws) <= 1 THEN <<0, 0, 0>>
    ELSE MinWide({ LET m == AddWide(ws[p[1]], ws[p[2]])
                       rest == Merged(ws, p[1], p[2], m)
                   IN  AddWide(m, MinPathLength([k \in 1 .. Len(rest) |-> rest[k][2]])) :
                   p \in {q \in (1 .. Len(ws)) \X (1 .. Len(ws)) : q[1] < q[2]} })

\* C20: on every table of n >= 2 symbols the weighted path length of the
\* returned tree is the least that a tree with those leaf weights, each node
\* of which has no child or two, can have.
C20_Optimal ==
    (pc = "done" /\ Len(freq) >= 2) =>
      PathLength(nodes, ret, 0) =
        MinPathLength([i \in 1 .. Len(freq) |-> Wide(ToUnsigned(freq[i]))])

====
